---- MODULE Spec2Model ----
(***************************************************************************)
(* The gesture-to-pluck interaction engine of the string piano: the frame  *)
(* tick of SkyStage.tsx, the frame de-duplication of visionService.ts and  *)
(* the string layout of constants.ts.                                      *)
(*                                                                         *)
(* Numbers.  The program computes with IEEE doubles; the model computes    *)
(* with integers:                                                          *)
(*   - a normalized x (0..1) is an integer number of 1/XUnits;             *)
(*   - a normalized y (0..1) is an integer number of 1/YUnits;             *)
(*   - a string's xPos (i+1)/(count+1) is kept as the exact fraction       *)
(*     <<num, den>> and compared with a finger's x by cross-multiplying;   *)
(*   - vibration is an integer number of 1/VibScale;                       *)
(*   - bend is an integer number of 1/BendScale pixels;                    *)
(*   - time is an integer number of milliseconds.                          *)
(* Products are truncated toward zero where the double would round.        *)
(* Arrays indexed from 0 in the program are functions on 0..n-1, except    *)
(* the landmark sets (hands), which are sequences: hand i of the program   *)
(* is element i+1.  JavaScript's null landmark cache is <<>>.              *)
(***************************************************************************)
EXTENDS Integers, Sequences, FiniteSets, TLC

(***************************************************************************)
(* Program constants                                                       *)
(***************************************************************************)
DEBOUNCE_MS == 120

\* CONFIG.CONFETTI_TRIGGER_COUNT, "Notes needed to trigger confetti"
CONFETTI_TRIGGER_COUNT == 5

C_MAJOR_SCALE == <<"C", "D", "E", "F", "G", "A", "B">>

STRING_COLORS == 10

PitchRange == {"Low", "Mid", "High"}

\* the choices the string-count control offers that the model explores
StringCounts == {8, 12}

(***************************************************************************)
(* Units of the integer arithmetic                                         *)
(***************************************************************************)
XUnits == 9 * 13 * 100

YUnits == 10 * 10

VibScale == 1000 * 1000

BendScale == 10 * 100

\* canvas.width (window.innerWidth at mount), in pixels
width == 9 * 13 * 10

Abs(n) == IF n < 0 THEN -n ELSE n

Sign(n) == IF n < 0 THEN -1 ELSE IF n > 0 THEN 1 ELSE 0

\* the slots of the arrays prevFingerX / prevFingerVisible / fingerPositions
Slots == 0 .. 1

\* JavaScript null (prevFingerX entries)
Null == -1

(***************************************************************************)
(* constants.ts: generateStringConfigs                                     *)
(***************************************************************************)
\* variant: every range starts at octave 4
OctaveStartFixed(range) == 4

OctaveStart(range) ==
  IF range = "Low" THEN 3 ELSE IF range = "High" THEN 5 ELSE 4

\* variant: strings spread from the left edge, the i-th at i / count
generateStringConfigsFromEdge(count, range) ==
  [i \in 0 .. count - 1 |->
     [id    |-> i,
      note  |-> <<C_MAJOR_SCALE[(i % Len(C_MAJOR_SCALE)) + 1],
                  OctaveStart(range) + (i \div Len(C_MAJOR_SCALE))>>,
      color |-> i % STRING_COLORS,
      xPos  |-> <<i, count>>]]

generateStringConfigs(count, range) ==
  [i \in 0 .. count - 1 |->
     [id    |-> i,
      note  |-> <<C_MAJOR_SCALE[(i % Len(C_MAJOR_SCALE)) + 1],
                  OctaveStart(range) + (i \div Len(C_MAJOR_SCALE))>>,
      color |-> i % STRING_COLORS,
      xPos  |-> <<i + 1, count + 1>>]]

(***************************************************************************)
(* Comparisons of a finger's x (in 1/XUnits) with a string's xPos          *)
(***************************************************************************)
\* finger.x - str.xPos, in units of 1/(XUnits * den)
DistNum(x, str) == x * str.xPos[2] - str.xPos[1] * XUnits

\* reachThreshold = 0.08, in the same units
reachThreshold(str) == (8 * XUnits * str.xPos[2]) \div 100

\* variant: a reach half as wide again (0.12)
isWithinReachWide(x, str) == Abs(DistNum(x, str)) * 100 < 12 * XUnits * str.xPos[2]

\* isWithinReach: Math.abs(distToFingerX) < reachThreshold
isWithinReach(x, str) == Abs(DistNum(x, str)) < reachThreshold(str)

\* pullFactor = 1.0 - |dist| / reachThreshold, in 1/1000
pullFactor(x, str) ==
  ((reachThreshold(str) - Abs(DistNum(x, str))) * 1000) \div reachThreshold(str)

\* variant: the bend without the pull factor, distToFingerX * width * 0.8
FingerBendNoPull(x, str) ==
  LET d      == DistNum(x, str)
      distPx == (((Abs(d) * BendScale) \div str.xPos[2]) * width) \div XUnits
  IN  Sign(d) * ((distPx * 8) \div 10)

\* bend = (distToFingerX * width) * pullFactor * 0.8, in 1/BendScale pixels
FingerBend(x, str) ==
  LET d      == DistNum(x, str)
      distPx == (((Abs(d) * BendScale) \div str.xPos[2]) * width) \div XUnits
  IN  Sign(d) * ((distPx * pullFactor(x, str) * 8) \div 10000)

\* physics.bend *= 0.8
SpringBack(bend) == Sign(bend) * ((Abs(bend) * 8) \div 10)

\* variant: damping by CONFIG.STRING_DAMPING = 0.9, which the loop does not use
DampByConfig(vibration) == (vibration * 9) \div 10

\* phys.vibration *= 0.92
Damp(vibration) == (vibration * 92) \div 100

\* the thresholds 0.01 and 0.1 on vibration
VibFloor == VibScale \div 100

VibActive == VibScale \div 10

\* variant: a playable zone that covers the whole frame
isInStringAreaAnywhere(y) == TRUE

\* finger.y <= 0.67
isInStringArea(y) == y * 100 <= 67 * YUnits

\* variant: a strict right crossing, x > str.xPos
crossedRightStrict(prevX, x, str) ==
  /\ prevX * str.xPos[2] < str.xPos[1] * XUnits
  /\ x * str.xPos[2] > str.xPos[1] * XUnits

\* variant: a right crossing that also starts on the string, prevX <= str.xPos
crossedRightFromString(prevX, x, str) ==
  /\ prevX * str.xPos[2] <= str.xPos[1] * XUnits
  /\ x * str.xPos[2] >= str.xPos[1] * XUnits

crossedRight(prevX, x, str) ==
  /\ prevX * str.xPos[2] < str.xPos[1] * XUnits
  /\ x * str.xPos[2] >= str.xPos[1] * XUnits

crossedLeft(prevX, x, str) ==
  /\ prevX * str.xPos[2] > str.xPos[1] * XUnits
  /\ x * str.xPos[2] <= str.xPos[1] * XUnits

(***************************************************************************)
(* State                                                                   *)
(***************************************************************************)
VARIABLES
  stringCount,        \* useState(12)
  pitchRange,         \* useState(PitchRange.MID)
  strings,            \* stringsRef.current, the layout of the latest render
  cameraActive,       \* useState(false)
  loading,            \* useState(true)
  loadingMessage,     \* useState('Warming up the orchestra...')
  cameraActiveRef,    \* cameraActiveRef.current
  startsPending,      \* startCamera calls waiting for getUserMedia to settle
  ticksPending,       \* requestAnimationFrame callbacks of tick not yet run
  resumed,            \* audioService.resume() has been called
  now,                \* performance.now() read by the latest tick
  videoTime,          \* video.currentTime
  lastVideoTime,      \* VisionService.lastVideoTime
  lastLandmarks,      \* lastLandmarksRef.current (<<>> is null)
  prevFingerX,        \* prevFingerX.current
  prevFingerVisible,  \* prevFingerVisible.current
  lastTriggerTimes,   \* lastTriggerTimes.current, the debounce ledger
  stringPhysics,      \* stringPhysics.current
  \* observations of the latest tick (written by Tick only, read by no action)
  detection,          \* what visionService.detect returned: "none", "empty",
                      \* "hands"; "skipped" when the tick did not call it
  handsLost,          \* the latest non-null detector result held no hand
  fingerPositions,    \* the fingerPositions array of the tick
  before,             \* the fingerPositions array of the tick before it
  bendStep,           \* per string of the layout: physics.bend after the bend
                      \* update, before the trigger logic
  stringLoop,         \* per string of the layout: [vibration, bend, lastTime,
                      \* events] after the string loop, before rendering
  plucks,             \* the Pluck Events of the tick, in the order fired
  pluckLog,           \* every Pluck Event so far, in the order fired
  framesSince,        \* per plucked string: ticks completed since its last pluck
  dropped,            \* per plucked string: it left the layout since its last pluck
  frame,              \* the number of ticks run to their end
  noteCount,          \* noteCountRef.current
  confettiBursts,     \* the number of triggerConfetti calls made
  layoutChanges,      \* the number of layout changes made
  detectorRuns,       \* detector invocations on the video frame now showing
  thrown,             \* what a tick threw: "nothing", "detector", "landmarks"
  \* audioService
  currentInstrumentName, \* AudioService.currentInstrumentName
  instrument,         \* AudioService.instrument, the active player
  pendingLoads,       \* the Soundfont.instrument promises not yet settled
  loadCalls,          \* the number of loadInstrument calls made
  requested,          \* the name passed to the latest loadInstrument call
  lastCompleted,      \* the player of the latest load that completed
  lastFailed,         \* the latest load that failed, if none completed since
  sounded             \* what each playNote call played, in the order called

engineVars == <<lastLandmarks, prevFingerX, prevFingerVisible,
                lastTriggerTimes, stringPhysics>>

tickVars == <<detection, handsLost, fingerPositions, before, bendStep, stringLoop, plucks,
              pluckLog, framesSince, dropped, frame, noteCount, confettiBursts>>

probeVars == <<tickVars, layoutChanges>>

loopVars == <<cameraActiveRef, startsPending, ticksPending, resumed,
              detectorRuns, thrown, loading, loadingMessage>>

serviceVars == <<currentInstrumentName, instrument, pendingLoads, loadCalls,
                 requested, lastCompleted, lastFailed>>

audioVars == <<serviceVars, sounded>>

vars == <<stringCount, pitchRange, strings, cameraActive, now, videoTime,
          lastVideoTime, engineVars, probeVars, loopVars, audioVars>>

(***************************************************************************)
(* SkyStage.tsx: the frame tick                                            *)
(***************************************************************************)
\* variant: detection whenever the video is ready
DetectionRunsWhenReady(active, ready) == ready

\* if (cameraActiveRef.current && videoRef.current.readyState >= 2)
DetectionRuns(active, ready) == active /\ ready

\* variant: a detector invoked on every call
DetectorInvokedAlways(currentTime, lastTime) == TRUE

\* VisionService.detect: if (video.currentTime !== this.lastVideoTime)
DetectorInvoked(currentTime, lastTime) == currentTime # lastTime

\* "Draw cursors for each hand's index finger" and "Use first hand's index
\* finger for general visibility/position" read fields of landmarks that may
\* be missing: landmarks 0, 5, 6, 7 of a hand that has landmark 8
\* (pt.x of undefined) and landmark 8 of the first hand (indexTip.x).
DrawingThrows(allHands) ==
  /\ Len(allHands) > 0
  /\ \/ \E i \in DOMAIN allHands : allHands[i].tip /\ ~allHands[i].skeleton
     \/ ~allHands[1].tip

\* the index fingertip of each hand slot, x mirrored
FingerPositions(landmarks) ==
  IF Len(landmarks) > 0
    THEN [i \in Slots |->
            IF i + 1 <= Len(landmarks) /\ landmarks[i + 1].tip
              THEN [x |-> XUnits - landmarks[i + 1].x,
                    y |-> landmarks[i + 1].y,
                    visible |-> TRUE]
              ELSE [x |-> -1, y |-> -1, visible |-> FALSE]]
    ELSE <<>>

\* variant: a candidate for every string that is below the full impulse
BendCandidateBelowImpulse(str, finger, vibration) ==
  IF finger.visible /\ isWithinReach(finger.x, str) /\ vibration < VibScale
    THEN FingerBend(finger.x, str)
    ELSE 0

\* variant: a candidate that ignores the string's vibration
BendCandidateAnyVibration(str, finger, vibration) ==
  IF finger.visible /\ isWithinReach(finger.x, str)
    THEN FingerBend(finger.x, str)
    ELSE 0

\* one finger's candidate in "Check bending for closest finger"
BendCandidate(str, finger, vibration) ==
  IF finger.visible /\ isWithinReach(finger.x, str) /\ vibration < VibActive
    THEN FingerBend(finger.x, str)
    ELSE 0

RECURSIVE ClosestBend(_, _, _, _, _)
ClosestBend(str, fingers, vibration, i, closestBend) ==
  IF i \notin DOMAIN fingers
    THEN closestBend
    ELSE LET bend == BendCandidate(str, fingers[i], vibration)
         IN  ClosestBend(str, fingers, vibration, i + 1,
                         IF Abs(bend) > Abs(closestBend) THEN bend ELSE closestBend)

\* variant: the bend of the finger nearest to the string
BendUpdateNearest(str, fingers, physics) ==
  LET reaching == {f \in DOMAIN fingers :
                     /\ fingers[f].visible
                     /\ isWithinReach(fingers[f].x, str)
                     /\ physics.vibration < VibActive}
  IN  IF reaching = {} THEN SpringBack(physics.bend)
      ELSE LET n == CHOOSE f \in reaching :
                      \A g \in reaching :
                        \/ Abs(DistNum(fingers[f].x, str)) < Abs(DistNum(fingers[g].x, str))
                        \/ /\ Abs(DistNum(fingers[f].x, str)) = Abs(DistNum(fingers[g].x, str))
                           /\ f <= g
           IN  IF FingerBend(fingers[n].x, str) # 0
                 THEN FingerBend(fingers[n].x, str)
                 ELSE SpringBack(physics.bend)

\* if (closestBend !== 0) physics.bend = closestBend; else physics.bend *= 0.8;
BendUpdate(str, fingers, physics) ==
  LET closestBend == ClosestBend(str, fingers, physics.vibration, 0, 0)
  IN  IF closestBend # 0 THEN closestBend ELSE SpringBack(physics.bend)

\* variant: one debounce window shared by all strings
LastTimeShared(ledger, id) ==
  IF DOMAIN ledger = {} THEN 0
  ELSE CHOOSE t \in {ledger[i] : i \in DOMAIN ledger} :
         \A i \in DOMAIN ledger : ledger[i] <= t

\* lastTriggerTimes.current[str.id] || 0
LastTime(ledger, id) == IF id \in DOMAIN ledger THEN ledger[id] ELSE 0

\* variant: a window that ends at exactly DEBOUNCE_MS
OutsideDebounceInclusive(t, lastTime) == t - lastTime >= DEBOUNCE_MS

\* the debounce test: now - lastTime > CONFIG.DEBOUNCE_MS
OutsideDebounce(t, lastTime) == t - lastTime > DEBOUNCE_MS

\* variant: an impulse added to the vibration that is left
triggerStringAdds(one, str, time, yPosNormalized) ==
  [one EXCEPT
     !.lastTime  = time,
     !.vibration = @ + VibScale,
     !.events    = Append(@, [stringId |-> str.id,
                              triggerTimeMs |-> time,
                              fingerYNormalized |-> yPosNormalized])]

\* variant: the event stamped with the string's previous trigger time
triggerStringStale(one, str, time, yPosNormalized) ==
  [one EXCEPT
     !.lastTime  = time,
     !.vibration = VibScale,
     !.events    = Append(@, [stringId |-> str.id,
                              triggerTimeMs |-> one.lastTime,
                              fingerYNormalized |-> yPosNormalized])]

\* triggerString(str, time, yPosNormalized) on the entries of string str.id:
\* the ledger entry, the vibration impulse and the Pluck Event handed on
triggerString(one, str, time, yPosNormalized) ==
  [one EXCEPT
     !.lastTime  = time,
     !.vibration = VibScale,
     !.events    = Append(@, [stringId |-> str.id,
                              triggerTimeMs |-> time,
                              fingerYNormalized |-> yPosNormalized])]

\* variant: a crossing test against whatever previous x is stored
CrossedFromStoredX(str, finger, prevX, wasVisible) ==
  /\ finger.visible
  /\ prevX # Null /\ isInStringArea(finger.y)
  /\ crossedRight(prevX, finger.x, str) \/ crossedLeft(prevX, finger.x, str)

\* the note count at which triggerString calls triggerConfetti
ConfettiEvery == 20

\* "Trigger confetti when reaching milestone":
\* if (noteCountRef.current % 20 === 0) triggerConfetti()
ConfettiDue(count) == count % ConfettiEvery = 0

\* AudioService.instrument = null; a player is the load that produced it
NoPlayer == [name |-> "none", load |-> 0]

\* audioService.playNote: the active player's sound, or the synthesized tone
\* when there is no player or its play() throws
playNote(player, playThrows) ==
  IF player # NoPlayer /\ ~playThrows THEN "soundfont" ELSE "fallback"

\* whether play() of the player may throw
PlayOutcomes(player) == IF player = NoPlayer THEN {FALSE} ELSE BOOLEAN

\* the crossing test of one finger against one string
Crossed(str, finger, prevX, wasVisible) ==
  /\ finger.visible
  /\ wasVisible /\ prevX # Null /\ isInStringArea(finger.y)
  /\ crossedRight(prevX, finger.x, str) \/ crossedLeft(prevX, finger.x, str)

\* variant: a trigger that leaves the bend of the tick in place
TriggerStepKeepsBend(str, fingers, prevX, wasVisible, t, i, one) ==
  IF /\ i \in DOMAIN fingers
     /\ Crossed(str, fingers[i], prevX[i], wasVisible[i])
     /\ OutsideDebounce(t, one.lastTime)
    THEN triggerString(one, str, t, fingers[i].y)
    ELSE one

\* variant: a string that is still vibrating is not triggered again
TriggerStepAtRest(str, fingers, prevX, wasVisible, t, i, one) ==
  IF /\ i \in DOMAIN fingers
     /\ Crossed(str, fingers[i], prevX[i], wasVisible[i])
     /\ OutsideDebounce(t, one.lastTime)
     /\ one.vibration <= VibFloor
    THEN [triggerString(one, str, t, fingers[i].y) EXCEPT !.bend = 0]
    ELSE one

\* variant: a suppressed crossing still sets the string ringing
TriggerStepRingsAnyway(str, fingers, prevX, wasVisible, t, i, one) ==
  IF i \in DOMAIN fingers /\ Crossed(str, fingers[i], prevX[i], wasVisible[i])
    THEN IF OutsideDebounce(t, one.lastTime)
           THEN [triggerString(one, str, t, fingers[i].y) EXCEPT !.bend = 0]
           ELSE [one EXCEPT !.vibration = VibScale]
    ELSE one

\* the body of "Trigger Logic (Crossing) for each finger" for finger i
TriggerStep(str, fingers, prevX, wasVisible, t, i, one) ==
  IF /\ i \in DOMAIN fingers
     /\ Crossed(str, fingers[i], prevX[i], wasVisible[i])
     /\ OutsideDebounce(t, one.lastTime)
    THEN [triggerString(one, str, t, fingers[i].y) EXCEPT !.bend = 0]
    ELSE one

\* variant: each slot debounced against the ledger as it was before the loop
TriggerLoopPerFinger(str, fingers, prevX, wasVisible, t, one) ==
  LET a == TriggerStep(str, fingers, prevX, wasVisible, t, 0, one)
      b == TriggerStep(str, fingers, prevX, wasVisible, t, 1, one)
  IN  [b EXCEPT !.events = a.events \o b.events]

\* "Trigger Logic (Crossing) for each finger": the loop over the two slots.
\* one is [vibration, bend, lastTime, events] of string str.id.
TriggerLoop(str, fingers, prevX, wasVisible, t, one) ==
  TriggerStep(str, fingers, prevX, wasVisible, t, 1,
    TriggerStep(str, fingers, prevX, wasVisible, t, 0, one))

\* stringPhysics.current[str.id], created on first sight
PhysicsOf(physics, id) ==
  IF id \in DOMAIN physics THEN physics[id] ELSE [vibration |-> 0, bend |-> 0]

\* the Pluck Events of a tick in the order the string loop fires them
RECURSIVE EventsFrom(_, _)
EventsFrom(res, i) ==
  IF i \notin DOMAIN res THEN <<>> ELSE res[i].events \o EventsFrom(res, i + 1)

\* variant: the decay applied to every entry of the physics state
renderEveryEntry(strs, physics) ==
  [id \in DOMAIN physics |->
     IF physics[id].vibration > VibFloor
       THEN [physics[id] EXCEPT !.vibration = Damp(@)]
       ELSE physics[id]]

\* the vibration decay of renderStringsAndEffects
renderStringsAndEffects(strs, physics) ==
  [id \in DOMAIN physics |->
     IF id \in DOMAIN strs /\ physics[id].vibration > VibFloor
       THEN [physics[id] EXCEPT !.vibration = Damp(@)]
       ELSE physics[id]]

\* variant: a slot's x stored only when none is stored for it yet
CommitPrevXOnFirstSight(fingers, prevX) ==
  [i \in Slots |-> IF i \in DOMAIN fingers /\ fingers[i].visible /\ prevX[i] = Null
                     THEN fingers[i].x ELSE prevX[i]]

\* "Update previous finger positions"
CommitPrevX(fingers, prevX) ==
  [i \in Slots |-> IF i \in DOMAIN fingers /\ fingers[i].visible
                     THEN fingers[i].x ELSE prevX[i]]

CommitPrevVisible(fingers, wasVisible) ==
  [i \in Slots |-> IF i \in DOMAIN fingers THEN fingers[i].visible
                   ELSE wasVisible[i]]

\* One frame: dt is the time since the previous tick, advanced tells whether
\* the video presented a new frame, hands is what the detector finds in it.
Tick(dt, ready, advanced, hands) ==
  /\ ticksPending > 0
  /\ now' = now + dt
  /\ videoTime' = IF advanced THEN now' ELSE videoTime
     \* "Vision Detection": visionService.detect, if it is called
  /\ detection' = IF ~DetectionRuns(cameraActiveRef, ready) THEN "skipped"
                  ELSE IF ~DetectorInvoked(videoTime', lastVideoTime) THEN "none"
                  ELSE IF Len(hands) = 0 THEN "empty" ELSE "hands"
  /\ lastVideoTime' = IF detection' \in {"empty", "hands"} THEN videoTime'
                      ELSE lastVideoTime
  /\ detectorRuns' = (IF videoTime' # videoTime THEN 0 ELSE detectorRuns)
                       + (IF detection' \in {"empty", "hands"} THEN 1 ELSE 0)
  /\ lastLandmarks' = IF detection' = "hands" THEN hands ELSE lastLandmarks
     \* the drawing of the hands does not throw (TickThrows is the tick that does)
  /\ detection' = "skipped" \/ ~DrawingThrows(lastLandmarks')
  /\ handsLost' = IF detection' \in {"none", "skipped"} THEN handsLost
                  ELSE detection' = "empty"
     \* "Get current finger positions from all detected hands"
  /\ fingerPositions' = FingerPositions(lastLandmarks')
  /\ before' = fingerPositions
     \* The body of stringsRef.current.forEach((str) => ...) reads and writes
     \* only the entries of str.id (physics and ledger), so the loop is the
     \* body applied to each string's entries: first the bend update ...
  /\ bendStep' = [i \in DOMAIN strings |->
                    BendUpdate(strings[i], fingerPositions',
                               PhysicsOf(stringPhysics, strings[i].id))]
     \* ... then the trigger logic
  /\ stringLoop' = [i \in DOMAIN strings |->
                      TriggerLoop(strings[i], fingerPositions', prevFingerX,
                        prevFingerVisible, now',
                        [vibration |-> PhysicsOf(stringPhysics, strings[i].id).vibration,
                         bend      |-> bendStep'[i],
                         lastTime  |-> LastTime(lastTriggerTimes, strings[i].id),
                         events    |-> <<>>])]
  /\ plucks' = EventsFrom(stringLoop', 0)
  /\ lastTriggerTimes' =
       [id \in DOMAIN lastTriggerTimes
                 \cup {i \in DOMAIN strings : stringLoop'[i].events # <<>>} |->
          IF id \in DOMAIN strings /\ stringLoop'[id].events # <<>>
            THEN stringLoop'[id].lastTime ELSE lastTriggerTimes[id]]
     \* "Update previous finger positions"
  /\ prevFingerX' = CommitPrevX(fingerPositions', prevFingerX)
  /\ prevFingerVisible' = CommitPrevVisible(fingerPositions', prevFingerVisible)
     \* "Render Strings & Effects"
  /\ stringPhysics' =
       renderStringsAndEffects(strings,
         [id \in DOMAIN stringPhysics \cup DOMAIN strings |->
            IF id \in DOMAIN strings
              THEN [vibration |-> stringLoop'[id].vibration,
                    bend      |-> stringLoop'[id].bend]
              ELSE stringPhysics[id]])
  /\ pluckLog' = pluckLog \o plucks'
     \* triggerString, once per Pluck Event: noteCountRef.current++ and the
     \* confetti milestone
  /\ noteCount' = noteCount + Len(plucks')
  /\ \E playThrows \in PlayOutcomes(instrument) :
       sounded' = sounded \o [k \in 1 .. Len(plucks') |->
                                playNote(instrument, playThrows)]
  /\ confettiBursts' = confettiBursts
       + Cardinality({k \in noteCount + 1 .. noteCount' : ConfettiDue(k)})
  /\ LET hit == {plucks'[k].stringId : k \in DOMAIN plucks'}
     IN  /\ framesSince' = [id \in DOMAIN framesSince \cup hit |->
                              IF id \in hit THEN 1 ELSE framesSince[id] + 1]
         /\ dropped' = [id \in DOMAIN dropped \cup hit |->
                          IF id \in hit THEN FALSE
                          ELSE dropped[id] \/ id \notin DOMAIN strings]
  /\ frame' = frame + 1
  /\ UNCHANGED layoutChanges
     \* requestAnimationFrame at the end of tick: one callback run, one pending
  /\ UNCHANGED <<stringCount, pitchRange, strings, cameraActive, cameraActiveRef,
                 startsPending, ticksPending, resumed, thrown, loading,
                 loadingMessage, serviceVars>>

\* A tick that throws in "Vision Detection": the detector throws
\* (detectorThrows), or it returns hands whose landmarks the drawing cannot
\* read.  Nothing in tick or detect catches, so the tick ends there: the
\* string loop, the rendering and the requestAnimationFrame are not reached.
TickThrows(dt, detectorThrows, hands) ==
  /\ ticksPending > 0
  /\ DetectionRuns(cameraActiveRef, TRUE)
  /\ now' = now + dt
  /\ videoTime' = now'
  /\ DetectorInvoked(videoTime', lastVideoTime)
  /\ lastVideoTime' = videoTime'
  /\ detectorRuns' = 1
  /\ IF detectorThrows
       THEN /\ lastLandmarks' = lastLandmarks
            /\ thrown' = "detector"
       ELSE /\ Len(hands) > 0
            /\ lastLandmarks' = hands
            /\ DrawingThrows(lastLandmarks')
            /\ thrown' = "landmarks"
  /\ ticksPending' = ticksPending - 1
  /\ UNCHANGED <<stringCount, pitchRange, strings, cameraActive, cameraActiveRef,
                 startsPending, resumed, prevFingerX, prevFingerVisible,
                 lastTriggerTimes, stringPhysics, probeVars, loading,
                 loadingMessage, audioVars>>

(***************************************************************************)
(* SkyStage.tsx: the controls                                              *)
(***************************************************************************)
\* variant: a start that leaves the audio context as it is
startCameraWithoutResume ==
  /\ ~cameraActive /\ ~loading
  /\ startsPending' = startsPending + 1
  /\ UNCHANGED <<stringCount, pitchRange, strings, cameraActive, now, videoTime,
                 lastVideoTime, engineVars, probeVars, cameraActiveRef,
                 ticksPending, detectorRuns, thrown, audioVars, resumed,
                 loading, loadingMessage>>

\* startCamera, offered while !cameraActive && !loading, up to its await of
\* getUserMedia: audioService.resume() is called and the camera asked for
startCamera ==
  /\ ~cameraActive /\ ~loading
  /\ resumed' = TRUE
  /\ startsPending' = startsPending + 1
  /\ UNCHANGED <<stringCount, pitchRange, strings, cameraActive, now, videoTime,
                 lastVideoTime, engineVars, probeVars, cameraActiveRef,
                 ticksPending, detectorRuns, thrown, loading, loadingMessage,
                 audioVars>>

\* startCamera after its await: getUserMedia resolved (granted), so
\* setCameraActive(true) and a requestAnimationFrame of tick, or it rejected
\* and the catch shows the alert
getUserMediaSettles ==
  /\ startsPending > 0
  /\ startsPending' = startsPending - 1
  /\ \E granted \in BOOLEAN :
       IF granted
         THEN cameraActive' = TRUE /\ ticksPending' = ticksPending + 1
         ELSE UNCHANGED <<cameraActive, ticksPending>>
  /\ UNCHANGED <<stringCount, pitchRange, strings, now, videoTime, lastVideoTime,
                 engineVars, probeVars, cameraActiveRef, resumed, detectorRuns,
                 thrown, loading, loadingMessage, audioVars>>

\* the start control pressed while no earlier press is waiting for the camera
pressStart == startsPending = 0 /\ startCamera

\* useEffect(..., [cameraActive]): "Keep ref in sync with state"
cameraActiveEffect ==
  /\ cameraActiveRef # cameraActive
  /\ cameraActiveRef' = cameraActive
  /\ IF ~cameraActive
       THEN /\ lastLandmarks' = <<>>
            /\ prevFingerX' = [i \in Slots |-> Null]
            /\ prevFingerVisible' = [i \in Slots |-> FALSE]
       ELSE UNCHANGED <<lastLandmarks, prevFingerX, prevFingerVisible>>
  /\ UNCHANGED <<stringCount, pitchRange, strings, cameraActive, now, videoTime,
                 lastVideoTime, lastTriggerTimes, stringPhysics, probeVars,
                 startsPending, ticksPending, resumed, detectorRuns, thrown,
                 loading, loadingMessage, audioVars>>

\* onClick={() => setStringCount(c)}, and the render that follows
setStringCount ==
  \E c \in StringCounts :
    /\ c # stringCount
    /\ stringCount' = c
    /\ strings' = generateStringConfigs(c, pitchRange)
    /\ layoutChanges' = layoutChanges + 1
    /\ UNCHANGED <<pitchRange, cameraActive, now, videoTime, lastVideoTime,
                   engineVars, tickVars, loopVars, audioVars>>

\* onClick={() => setPitchRange(r)}, and the render that follows
setPitchRange ==
  \E r \in PitchRange :
    /\ r # pitchRange
    /\ pitchRange' = r
    /\ strings' = generateStringConfigs(stringCount, r)
    /\ layoutChanges' = layoutChanges + 1
    /\ UNCHANGED <<stringCount, cameraActive, now, videoTime, lastVideoTime,
                   engineVars, tickVars, loopVars, audioVars>>

(***************************************************************************)
(* audioService.ts: the instrument loads.  The AudioContext exists (the     *)
(* constructor creates it wherever the platform has one).                   *)
(***************************************************************************)
\* the values of InstrumentName that the model explores
InstrumentNames == {"acoustic_grand_piano", "music_box", "violin"}

\* variant: the player of every completed load becomes the active one
InstalledAlways(current, loadingName, newPlayer, active) == newPlayer

\* variant: a completed load installs its player only when none is active
InstalledWhenSilent(current, loadingName, newPlayer, active) ==
  IF active = NoPlayer THEN newPlayer ELSE active

\* if (this.currentInstrumentName === loadingName) this.instrument = newPlayer
Installed(current, loadingName, newPlayer, active) ==
  IF current = loadingName THEN newPlayer ELSE active

\* loadInstrument(name), up to its await, on the state of the service
LoadRequested(name) ==
  /\ requested' = name
  /\ loadCalls' = loadCalls + 1
  /\ IF currentInstrumentName = name /\ instrument # NoPlayer
       THEN UNCHANGED <<currentInstrumentName, pendingLoads>>
       ELSE /\ currentInstrumentName' = name
            /\ pendingLoads' = pendingLoads \cup {[name |-> name, load |-> loadCalls']}
  /\ UNCHANGED <<instrument, lastCompleted, lastFailed, sounded>>

\* a call of loadInstrument(name) on its own
loadInstrument(name) ==
  /\ LoadRequested(name)
  /\ UNCHANGED <<stringCount, pitchRange, strings, cameraActive, now, videoTime,
                 lastVideoTime, engineVars, probeVars, loopVars>>

\* loadInstrument after its await: Soundfont.instrument resolved for load l
LoadCompletes(l) ==
  /\ l \in pendingLoads
  /\ pendingLoads' = pendingLoads \ {l}
  /\ instrument' = Installed(currentInstrumentName, l.name, l, instrument)
  /\ lastCompleted' = l
  /\ lastFailed' = NoPlayer
  /\ UNCHANGED <<currentInstrumentName, loadCalls, requested, sounded>>
  /\ UNCHANGED <<stringCount, pitchRange, strings, cameraActive, now, videoTime,
                 lastVideoTime, engineVars, probeVars, loopVars>>

\* loadInstrument after its await: Soundfont.instrument rejected for load l,
\* caught and logged
LoadFails(l) ==
  /\ l \in pendingLoads
  /\ pendingLoads' = pendingLoads \ {l}
  /\ lastFailed' = l
  /\ UNCHANGED <<currentInstrumentName, instrument, loadCalls, requested,
                 lastCompleted, sounded>>
  /\ UNCHANGED <<stringCount, pitchRange, strings, cameraActive, now, videoTime,
                 lastVideoTime, engineVars, probeVars, loopVars>>

(***************************************************************************)
(* SkyStage.tsx: the mount effect that loads the tracking model             *)
(***************************************************************************)
\* variant: an init that clears the loading state whatever happened
initClearsLoading ==
  /\ loadingMessage = "Warming up the orchestra..."
  /\ loading' = FALSE
  /\ \E ok \in BOOLEAN :
       IF ok
         THEN /\ loadingMessage' = "Loading Sounds..."
              /\ LoadRequested("music_box")
         ELSE /\ loadingMessage' = "Error loading resources. Please refresh."
              /\ UNCHANGED audioVars
  /\ UNCHANGED <<stringCount, pitchRange, strings, cameraActive, now, videoTime,
                 lastVideoTime, engineVars, probeVars, cameraActiveRef,
                 startsPending, ticksPending, resumed, detectorRuns, thrown>>

\* the init of the mount effect, from its start to its end: visionService
\* .initialize() resolves (ok) and the instrument useState('music_box') is
\* requested and the loading state cleared, or it rejects and the catch only
\* changes the message
init ==
  /\ loadingMessage = "Warming up the orchestra..."
  /\ \E ok \in BOOLEAN :
       IF ok
         THEN /\ loadingMessage' = "Loading Sounds..."
              /\ LoadRequested("music_box")
              /\ loading' = FALSE
         ELSE /\ loadingMessage' = "Error loading resources. Please refresh."
              /\ UNCHANGED <<loading, audioVars>>
  /\ UNCHANGED <<stringCount, pitchRange, strings, cameraActive, now, videoTime,
                 lastVideoTime, engineVars, probeVars, cameraActiveRef,
                 startsPending, ticksPending, resumed, detectorRuns, thrown>>

(***************************************************************************)
(* Initial state and free play                                             *)
(***************************************************************************)
\* performance.now() when the start control is pressed; the clock counts from
\* the page's time origin and the control is offered once the model is loaded
StartMs == 1000

\* ticks explored in free play
MaxFrames == 3

\* changes of the layout explored
MaxLayoutChanges == 1

\* time between two ticks, in ms
FrameIntervals == {60, 120, 121}

\* time between a tick that throws and the tick before it, in ms
FaultMs == 16

\* a detected hand whose index fingertip shows at mirrored position (x, y)
Hand(x, y) == [x |-> XUnits - x, y |-> y, tip |-> TRUE, skeleton |-> TRUE]

\* One hand.  String 0 of the 12-string layout is at 900/11700 and the reach
\* is 936/11700: left of the string at half the reach, on it, right of it at
\* half the reach (in the playable zone and below it), at exactly the reach,
\* and right of the last string.
OneHand == {Hand(432, 30), Hand(900, 30), Hand(1368, 30), Hand(1368, 80),
            Hand(1836, 30), Hand(11000, 30)}

\* a detected hand without landmark 8, the index fingertip
NoTip == [x |-> 0, y |-> 0, tip |-> FALSE, skeleton |-> TRUE]

\* a detected hand with landmark 8 and without one of landmarks 0, 5, 6, 7
NoSkeleton(x, y) == [Hand(x, y) EXCEPT !.skeleton = FALSE]

\* two hands on either side of that string, and a second hand without a tip
TwoHands == {<<Hand(432, 30), Hand(1368, 30)>>,
             <<Hand(1368, 30), Hand(432, 30)>>,
             <<Hand(1368, 30), Hand(1368, 30)>>,
             <<Hand(1368, 30), NoTip>>}

\* landmark sets that the drawing of the hands cannot read
MalformedDetections == {<<NoTip>>, <<NoSkeleton(1368, 30)>>,
                        <<Hand(1368, 30), NoSkeleton(432, 30)>>}

Detections == {<<>>} \cup {<<h>> : h \in OneHand} \cup TwoHands

Init ==
  /\ stringCount = 12
  /\ pitchRange = "Mid"
  /\ strings = generateStringConfigs(stringCount, pitchRange)
  /\ cameraActive = FALSE
  /\ loading = TRUE
  /\ loadingMessage = "Warming up the orchestra..."
  /\ cameraActiveRef = FALSE
  /\ startsPending = 0
  /\ ticksPending = 0
  /\ resumed = FALSE
  /\ detectorRuns = 0
  /\ thrown = "nothing"
  /\ now = StartMs
  /\ videoTime = 0
  /\ lastVideoTime = -1
  /\ lastLandmarks = <<>>
  /\ prevFingerX = [i \in Slots |-> Null]
  /\ prevFingerVisible = [i \in Slots |-> FALSE]
  /\ lastTriggerTimes = <<>>
  /\ stringPhysics = <<>>
  /\ detection = "none"
  /\ handsLost = FALSE
  /\ fingerPositions = <<>>
  /\ before = <<>>
  /\ bendStep = <<>>
  /\ stringLoop = <<>>
  /\ plucks = <<>>
  /\ pluckLog = <<>>
  /\ framesSince = <<>>
  /\ dropped = <<>>
  /\ frame = 0
  /\ noteCount = 0
  /\ confettiBursts = 0
  /\ layoutChanges = 0
  /\ currentInstrumentName = "acoustic_grand_piano"
  /\ instrument = NoPlayer
  /\ pendingLoads = {}
  /\ loadCalls = 0
  /\ requested = "none"
  /\ lastCompleted = NoPlayer
  /\ lastFailed = NoPlayer
  /\ sounded = <<>>

\* a tick: the video not ready, ready with no new frame, or ready with a new
\* frame in which the detector finds hands
FrameTick ==
  /\ frame < MaxFrames
  /\ \E dt \in FrameIntervals :
       \/ Tick(dt, FALSE, TRUE, <<>>)
       \/ Tick(dt, TRUE, FALSE, <<>>)
       \/ \E hands \in Detections : Tick(dt, TRUE, TRUE, hands)

\* a tick in which the detector throws or returns unreadable landmarks
FaultyTick ==
  /\ frame < MaxFrames
  /\ \/ TickThrows(FaultMs, TRUE, <<>>)
     \/ \E hands \in MalformedDetections : TickThrows(FaultMs, FALSE, hands)

ChangeStringCount == layoutChanges < MaxLayoutChanges /\ setStringCount

ChangePitchRange == layoutChanges < MaxLayoutChanges /\ setPitchRange

Next ==
  \/ init
  \/ pressStart
  \/ getUserMediaSettles
  \/ cameraActiveEffect
  \/ ChangeStringCount
  \/ ChangePitchRange
  \/ FrameTick
  \/ FaultyTick

Spec == Init /\ [][Next]_vars

(***************************************************************************)
(* The sweep scenario: 12 strings, mid range, one finger moving from        *)
(* x = 0.05 to x = 0.95 at y = 0.3, every tick on a new video frame.        *)
(***************************************************************************)
SweepStart == (5 * XUnits) \div 100

SweepEnd == (95 * XUnits) \div 100

\* per-tick steps of the finger: one string spacing, four string spacings
SweepSteps == {XUnits \div 13, (4 * XUnits) \div 13}

\* time between two ticks of the sweep, in ms
SweepIntervals == {16, 130}

Min(a, b) == IF a < b THEN a ELSE b

SweepDone == prevFingerVisible[0] /\ prevFingerX[0] = SweepEnd

SweepTick ==
  /\ cameraActiveRef
  /\ ~SweepDone
  /\ \E dt \in SweepIntervals :
       IF ~prevFingerVisible[0]
         THEN Tick(dt, TRUE, TRUE, <<Hand(SweepStart, 30)>>)
         ELSE \E step \in SweepSteps :
                Tick(dt, TRUE, TRUE,
                     <<Hand(Min(prevFingerX[0] + step, SweepEnd), 30)>>)

SweepNext == init \/ pressStart \/ getUserMediaSettles \/ cameraActiveEffect \/ SweepTick

SweepSpec == Init /\ [][SweepNext]_vars

(***************************************************************************)
(* The decay scenario: one finger plays string 10 of the 12-string layout   *)
(* (xPos 9900/11700) for a few frames and then holds still while the        *)
(* display keeps refreshing; the string count may change meanwhile.         *)
(***************************************************************************)
\* frames during which the finger holds still
HoldFrames == 60

\* the display's refresh interval, in ms
RefreshMs == 16

DecayDetections == {<<>>, <<Hand(9432, 30)>>, <<Hand(10368, 30)>>}

DecayPlay ==
  /\ cameraActiveRef
  /\ frame < MaxFrames
  /\ \E hands \in DecayDetections : Tick(DEBOUNCE_MS + 1, TRUE, TRUE, hands)

\* the detector keeps reporting the hand(s) where they are
HoldTick ==
  /\ frame >= MaxFrames
  /\ frame < MaxFrames + HoldFrames
  /\ Tick(RefreshMs, TRUE, TRUE, lastLandmarks)

\* the string count is changed while playing or right after, not while holding
DecayChange == frame <= MaxFrames /\ ChangeStringCount

DecayNext ==
  \/ init
  \/ pressStart
  \/ getUserMediaSettles
  \/ cameraActiveEffect
  \/ DecayChange
  \/ DecayPlay
  \/ HoldTick

DecaySpec == Init /\ [][DecayNext]_vars

(***************************************************************************)
(* The layout scenario: generateStringConfigs applied to every string count *)
(* from 1 to MaxCount and every pitch range, as the render of SkyStage      *)
(* applies it to the state of the two controls.                             *)
(***************************************************************************)
\* the largest string count laid out
MaxCount == 40

\* const strings = generateStringConfigs(stringCount, pitchRange), rendered
\* with the controls at count c and range r
Relayout(c, r) ==
  /\ stringCount' = c
  /\ pitchRange' = r
  /\ strings' = generateStringConfigs(c, r)
  /\ UNCHANGED <<cameraActive, now, videoTime, lastVideoTime, engineVars,
                 probeVars, loopVars, audioVars>>

LayoutCount == \E c \in 1 .. MaxCount : c # stringCount /\ Relayout(c, pitchRange)

LayoutRange == \E r \in PitchRange : r # pitchRange /\ Relayout(stringCount, r)

LayoutNext == LayoutCount \/ LayoutRange

LayoutSpec == Init /\ [][LayoutNext]_vars

(***************************************************************************)
(* The instrument scenario: loadInstrument called with any names, its loads *)
(* completing or failing in any order.                                      *)
(***************************************************************************)
\* loadInstrument calls explored
MaxLoads == 4

\* playNote calls explored
MaxNotes == 2

\* a playNote call on its own
PlayNote ==
  /\ Len(sounded) < MaxNotes
  /\ \E playThrows \in PlayOutcomes(instrument) :
       sounded' = Append(sounded, playNote(instrument, playThrows))
  /\ UNCHANGED <<serviceVars, stringCount, pitchRange, strings, cameraActive, now,
                 videoTime, lastVideoTime, engineVars, probeVars, loopVars>>

RequestLoad ==
  /\ loadCalls < MaxLoads
  /\ \E name \in InstrumentNames : loadInstrument(name)

LoadSettles == \E l \in pendingLoads : LoadCompletes(l) \/ LoadFails(l)

AudioNext == RequestLoad \/ LoadSettles \/ PlayNote

AudioSpec == Init /\ [][AudioNext]_vars

(***************************************************************************)
(* The reliable-network scenario: loadInstrument called with any names,     *)
(* every load completing, in any order.                                     *)
(***************************************************************************)
LoadSucceeds == \E l \in pendingLoads : LoadCompletes(l)

ReliableNext == RequestLoad \/ LoadSucceeds \/ PlayNote

ReliableSpec == Init /\ [][ReliableNext]_vars

(***************************************************************************)
(* The two-finger scenario: two hands held around string 0 of the 12-string *)
(* layout (xPos 900/11700, reach 936/11700), each at any of the places of   *)
(* PairXs, for a few frames.                                                *)
(***************************************************************************)
\* finger places: left of the string at half the reach, left at a quarter of
\* the reach, on the string, right at a quarter, at half and at three
\* quarters of the reach, and at exactly the reach
PairXs == {432, 666, 900, 1134, 1368, 1602, 1836}

\* frames of the two-finger scenario
MaxPairFrames == 2

PairTick ==
  /\ cameraActiveRef
  /\ frame < MaxPairFrames
  /\ \E a \in PairXs, b \in PairXs :
       Tick(DEBOUNCE_MS + 1, TRUE, TRUE, <<Hand(a, 30), Hand(b, 30)>>)

PairNext == init \/ pressStart \/ getUserMediaSettles \/ cameraActiveEffect \/ PairTick

PairSpec == Init /\ [][PairNext]_vars

(***************************************************************************)
(* The start scenario: the start control pressed again while an earlier     *)
(* press is still waiting for the camera, then a few frames with one finger *)
(* at string 10.                                                            *)
(***************************************************************************)
\* presses of the start control that wait for the camera at the same time
MaxStarts == 2

pressStartAgain == startsPending < MaxStarts /\ startCamera

\* a further callback of tick run in the same display frame: the clock has
\* not moved by a millisecond and the video shows the same frame
SameFrameTick ==
  /\ ticksPending > 1
  /\ frame >= 1
  /\ frame < MaxFrames
  /\ Tick(0, TRUE, FALSE, <<>>)

StartNext ==
  \/ init
  \/ pressStartAgain
  \/ getUserMediaSettles
  \/ cameraActiveEffect
  \/ DecayPlay
  \/ SameFrameTick

StartSpec == Init /\ [][StartNext]_vars

(***************************************************************************)
(* The slot scenario: a left and a right hand around string 0 of the        *)
(* 12-string layout; every video frame the detector reports one of them or  *)
(* both, in either order (results.landmarks is indexed by detection, not by *)
(* hand).                                                                   *)
(***************************************************************************)
\* frames of the slot scenario
MaxSlotFrames == 2

\* fingertip places: left and right of string 0 at half the reach, and right
\* of it at exactly the reach
SlotXs == {432, 1368, 1836}

\* the landmarks of hand who with its index fingertip at x; who is the hand
\* the landmarks belong to, which the engine never reads
TrackedHand(who, x) ==
  [x |-> Hand(x, 30).x, y |-> Hand(x, 30).y, tip |-> TRUE, skeleton |-> TRUE,
   who |-> who]

SlotReports ==
  UNION {{<<TrackedHand("left", a)>>, <<TrackedHand("right", b)>>,
          <<TrackedHand("left", a), TrackedHand("right", b)>>,
          <<TrackedHand("right", b), TrackedHand("left", a)>>} :
           a \in SlotXs, b \in SlotXs}

SlotTick ==
  /\ cameraActiveRef
  /\ frame < MaxSlotFrames
  /\ \E report \in SlotReports : Tick(DEBOUNCE_MS + 1, TRUE, TRUE, report)

SlotNext ==
  init \/ pressStart \/ getUserMediaSettles \/ cameraActiveEffect \/ SlotTick

SlotSpec == Init /\ [][SlotNext]_vars

(***************************************************************************)
(* Vocabulary of the properties.  They are stated over what a tick          *)
(* observed (before, fingerPositions, plucks, pluckLog), not over the       *)
(* engine's own bookkeeping.                                                *)
(***************************************************************************)
\* this step is a frame tick
Ticked == frame' = frame + 1

\* x moved across the string between two ticks:
\* prevX < xPos <= currX or prevX > xPos >= currX
MovedAcross(prevX, currX, str) ==
  \/ prevX * str.xPos[2] < str.xPos[1] * XUnits
       /\ str.xPos[1] * XUnits <= currX * str.xPos[2]
  \/ prevX * str.xPos[2] > str.xPos[1] * XUnits
       /\ str.xPos[1] * XUnits >= currX * str.xPos[2]

\* slot f was visible in the tick before, is visible in a tick with the finger
\* positions fingers, moved across str and is in the playable zone (y <= 0.67)
SlotCrossed(f, str, was, fingers) ==
  /\ f \in DOMAIN was /\ was[f].visible
  /\ f \in DOMAIN fingers /\ fingers[f].visible
  /\ MovedAcross(was[f].x, fingers[f].x, str)
  /\ fingers[f].y * 100 <= 67 * YUnits

\* the Pluck Events of evts that are for string id
EventsFor(evts, id) == {k \in DOMAIN evts : evts[k].stringId = id}

\* at time t string id is outside its debounce window, given the events so far
OutsideWindow(log, id, t) ==
  \A k \in EventsFor(log, id) : t - log[k].triggerTimeMs > DEBOUNCE_MS

\* the events fired before the latest tick
EarlierLog == SubSeq(pluckLog, 1, Len(pluckLog) - Len(plucks))

\* the layout has been the same since the start, so the latest tick used it
SameLayout == layoutChanges = 0

(***************************************************************************)
(* C1: a finger slot visible in two consecutive ticks whose x moved across  *)
(* a string, in the playable zone, with the string outside its debounce     *)
(* window (or never triggered), fires exactly one Pluck Event for that      *)
(* string in the tick.                                                      *)
(***************************************************************************)
C1_PluckOnCrossing ==
  [][Ticked =>
       \A i \in DOMAIN strings :
         /\ \E f \in Slots : SlotCrossed(f, strings[i], fingerPositions, fingerPositions')
         /\ OutsideWindow(pluckLog, i, now')
         => Cardinality(EventsFor(plucks', i)) = 1]_vars

\* a finger landed exactly on a never-triggered string and plucked it
C1_Witness ==
  /\ SameLayout
  /\ \E i \in DOMAIN strings :
       /\ SlotCrossed(0, strings[i], before, fingerPositions)
       /\ fingerPositions[0].x * strings[i].xPos[2] = strings[i].xPos[1] * XUnits
       /\ EventsFor(EarlierLog, i) = {}
       /\ Cardinality(EventsFor(plucks, i)) = 1

(***************************************************************************)
(* C2: two Pluck Events of the same string are more than DEBOUNCE_MS apart, *)
(* whichever slot caused them; so a crossing within DEBOUNCE_MS of the      *)
(* string's last trigger fires nothing.                                     *)
(***************************************************************************)
C2_DebounceSeparation ==
  \A j, k \in DOMAIN pluckLog :
    j < k /\ pluckLog[j].stringId = pluckLog[k].stringId
      => pluckLog[k].triggerTimeMs - pluckLog[j].triggerTimeMs > DEBOUNCE_MS

\* a string plucked a second time, by slot 1 alone, just outside the window
C2_Witness ==
  /\ SameLayout
  /\ \E i \in DOMAIN strings :
       /\ EventsFor(EarlierLog, i) # {}
       /\ EventsFor(plucks, i) # {}
       /\ ~SlotCrossed(0, strings[i], before, fingerPositions)
       /\ SlotCrossed(1, strings[i], before, fingerPositions)
       /\ \E k \in EventsFor(EarlierLog, i) :
            now - EarlierLog[k].triggerTimeMs = DEBOUNCE_MS + 1

(***************************************************************************)
(* C3: both slots crossing the same string in one tick (both in the         *)
(* playable zone, string outside its window) fire one Pluck Event, not two. *)
(***************************************************************************)
C3_OnePluckForTwoHands ==
  [][Ticked =>
       \A i \in DOMAIN strings :
         /\ SlotCrossed(0, strings[i], fingerPositions, fingerPositions')
         /\ SlotCrossed(1, strings[i], fingerPositions, fingerPositions')
         /\ OutsideWindow(pluckLog, i, now')
         => Cardinality(EventsFor(plucks', i)) = 1]_vars

C3_Witness ==
  /\ SameLayout
  /\ \E i \in DOMAIN strings :
       /\ SlotCrossed(0, strings[i], before, fingerPositions)
       /\ SlotCrossed(1, strings[i], before, fingerPositions)
       /\ Cardinality(EventsFor(plucks, i)) = 1

(***************************************************************************)
(* C4: in the sweep (12 strings, mid range, one finger always visible, x    *)
(* rising from 0.05 to 0.95 at y = 0.3) the Pluck Events are one per string *)
(* in ascending id order, and there are exactly 12 of them at the end.      *)
(***************************************************************************)
C4_SweepPlucksEveryString ==
  /\ \A k \in DOMAIN pluckLog : pluckLog[k].stringId = k - 1
  /\ \A k \in DOMAIN pluckLog :
       pluckLog[k].fingerYNormalized = 30
         /\ fingerPositions[0].x * strings[k - 1].xPos[2]
              >= strings[k - 1].xPos[1] * XUnits
  /\ SweepDone => Len(pluckLog) = Cardinality(DOMAIN strings)

\* the sweep has ended past the last string with twelve events fired
C4_Witness ==
  /\ SweepDone
  /\ stringCount = 12 /\ pitchRange = "Mid"
  /\ fingerPositions[0].x * 13 > 12 * XUnits
  /\ Len(pluckLog) = 12

(***************************************************************************)
(* C5 as stated: in the sweep every two successive Pluck Events are at      *)
(* least DEBOUNCE_MS apart, whatever the per-tick step of the finger.       *)
(***************************************************************************)
C5_SweepGapsAtLeastDebounce ==
  \A k \in DOMAIN pluckLog :
    k > 1 => pluckLog[k].triggerTimeMs - pluckLog[k - 1].triggerTimeMs >= DEBOUNCE_MS

(***************************************************************************)
(* C5 amended: a Pluck Event of the sweep carries the clock of the tick     *)
(* that saw the crossing, so two successive events are 0 ms apart when one  *)
(* tick crosses both strings and otherwise at least one frame interval      *)
(* apart: at least DEBOUNCE_MS only if the frames are.                      *)
(***************************************************************************)
C5_SweepGapsFollowTicks ==
  [][Ticked =>
       \A k \in DOMAIN pluckLog' :
         k > Len(pluckLog) =>
           /\ pluckLog'[k].triggerTimeMs = now'
           /\ k > 1 =>
                LET gap == pluckLog'[k].triggerTimeMs - pluckLog'[k - 1].triggerTimeMs
                IN  IF k - 1 > Len(pluckLog) THEN gap = 0 ELSE gap >= now' - now]_vars

\* a finished sweep with two strings plucked by one tick, two by successive
\* fast ticks and two by successive slow ticks
C5_Witness ==
  /\ SweepDone
  /\ \E i, j, k \in DOMAIN pluckLog :
       /\ i > 1 /\ j > 1 /\ k > 1
       /\ pluckLog[i].triggerTimeMs - pluckLog[i - 1].triggerTimeMs = 0
       /\ pluckLog[j].triggerTimeMs - pluckLog[j - 1].triggerTimeMs \in 1 .. DEBOUNCE_MS - 1
       /\ pluckLog[k].triggerTimeMs - pluckLog[k - 1].triggerTimeMs >= DEBOUNCE_MS

(***************************************************************************)
(* Vocabulary of the physics properties                                     *)
(***************************************************************************)
\* 0.92^k in 1/VibScale, multiplied out frame by frame until it is <= 0.01
RECURSIVE DecayedBy(_)
DecayedBy(k) ==
  IF k = 0 THEN VibScale
  ELSE LET p == DecayedBy(k - 1)
       IN  IF p * 100 > VibScale THEN (p * 92) \div 100 ELSE p

\* 0.8 * bend
Eased(bend) == IF bend < 0 THEN -(((-bend) * 8) \div 10) ELSE (bend * 8) \div 10

\* |x - str.xPos| < 0.08, and the same >= 0.08
Near(x, str) ==
  LET d == x * str.xPos[2] - str.xPos[1] * XUnits
  IN  (IF d < 0 THEN -d ELSE d) * 100 < 8 * XUnits * str.xPos[2]

\* the vibration of string id when the latest tick began its string loop
VibrationAtStart(physics, id) ==
  IF id \in DOMAIN physics THEN physics[id].vibration ELSE 0

BendAtStart(physics, id) ==
  IF id \in DOMAIN physics THEN physics[id].bend ELSE 0

(***************************************************************************)
(* C6 as stated: a plucked string that is not re-triggered has vibration    *)
(* 0.92^k after k completed frames, until that is <= 0.01, then it is       *)
(* constant.                                                                *)
(***************************************************************************)
C6_VibrationIsPowerOfDamping ==
  \A id \in DOMAIN framesSince :
    stringPhysics[id].vibration = DecayedBy(framesSince[id])

(***************************************************************************)
(* C6 amended: the same for a plucked string for as long as it stays in     *)
(* the layout: its vibration is 1.0 when plucked and 0.92^k after k         *)
(* completed frames, until that is <= 0.01, then it is constant.  A string  *)
(* taken out of the layout keeps the vibration it had.                      *)
(***************************************************************************)
C6_VibrationInLayoutIsPowerOfDamping ==
  \A id \in DOMAIN framesSince :
    /\ ~dropped[id] => stringPhysics[id].vibration = DecayedBy(framesSince[id])
    /\ framesSince[id] = 1 => stringLoop[id].vibration = VibScale

\* a plucked string still in the layout, frames after it came to rest
C6_Witness ==
  \E id \in DOMAIN framesSince :
    /\ ~dropped[id] /\ id \in DOMAIN strings
    /\ framesSince[id] >= HoldFrames
    /\ stringPhysics[id].vibration * 100 <= VibScale
    /\ stringPhysics[id].vibration > 0

(***************************************************************************)
(* C7 as stated: in a tick that a string begins with vibration above 0.01,  *)
(* no finger sets its bend: the bend update only eases the bend by 0.8.     *)
(***************************************************************************)
C7_NoBendAboveRestThreshold ==
  [][Ticked =>
       \A i \in DOMAIN strings :
         VibrationAtStart(stringPhysics, i) * 100 > VibScale
           => bendStep'[i] = Eased(BendAtStart(stringPhysics, i))]_vars

(***************************************************************************)
(* C7 amended: the threshold of bend eligibility is 0.1.  In a tick that a  *)
(* string begins with vibration >= 0.1 the bend update only eases its bend  *)
(* by 0.8; with vibration below 0.1, also above 0.01, a finger within reach *)
(* (and off the string) sets the bend.                                      *)
(***************************************************************************)
C7_NoBendWhileVibrating ==
  [][Ticked =>
       \A i \in DOMAIN strings :
         /\ VibrationAtStart(stringPhysics, i) * 10 >= VibScale
              => bendStep'[i] = Eased(BendAtStart(stringPhysics, i))
         /\ /\ VibrationAtStart(stringPhysics, i) * 10 < VibScale
            /\ \E f \in DOMAIN fingerPositions' :
                 /\ fingerPositions'[f].visible
                 /\ Near(fingerPositions'[f].x, strings[i])
                 /\ fingerPositions'[f].x * strings[i].xPos[2]
                      # strings[i].xPos[1] * XUnits
            => bendStep'[i] # 0]_vars

\* a finger within reach of a string plucked two or more frames ago and
\* still vibrating at 0.1 or more after the tick: its bend stayed 0
C7_Witness ==
  \E i \in DOMAIN framesSince :
    /\ i \in DOMAIN strings /\ i \in DOMAIN bendStep /\ ~dropped[i]
    /\ framesSince[i] >= 2
    /\ stringPhysics[i].vibration * 10 >= VibScale
    /\ fingerPositions # <<>> /\ fingerPositions[0].visible
    /\ Near(fingerPositions[0].x, strings[i])
    /\ bendStep[i] = 0

(***************************************************************************)
(* Vocabulary of the bend properties                                        *)
(***************************************************************************)
\* exactly one finger, slot 0, is visible in the finger positions
OneFinger(fingers) ==
  /\ fingers # <<>>
  /\ fingers[0].visible
  /\ ~fingers[1].visible

\* x is on the string / at half the reach from it / at the reach from it
OnString(x, str) == x * str.xPos[2] = str.xPos[1] * XUnits

AtHalfReach(x, str) ==
  LET d == x * str.xPos[2] - str.xPos[1] * XUnits
  IN  (IF d < 0 THEN -d ELSE d) * 100 = 4 * XUnits * str.xPos[2]

AtReach(x, str) ==
  LET d == x * str.xPos[2] - str.xPos[1] * XUnits
  IN  (IF d < 0 THEN -d ELSE d) * 100 = 8 * XUnits * str.xPos[2]

\* the x of a string, in 1/XUnits
XOf(str) == (str.xPos[1] * XUnits) \div str.xPos[2]

\* 0.04 * width * 0.5 * 0.8 = 0.016 * width, in 1/BendScale pixels
HalfReachBend == (16 * width * BendScale) \div 1000

(***************************************************************************)
(* C8 as stated: for a string at rest and a single visible finger within    *)
(* reach at a non-zero distance, the bend is no larger in magnitude than    *)
(* the bend the finger produces on the string itself (distance 0).          *)
(***************************************************************************)
C8_BendLargestOnString ==
  [][Ticked =>
       \A i \in DOMAIN strings :
         /\ VibrationAtStart(stringPhysics, i) * 100 <= VibScale
         /\ OneFinger(fingerPositions')
         /\ Near(fingerPositions'[0].x, strings[i])
         /\ ~OnString(fingerPositions'[0].x, strings[i])
         => Abs(bendStep'[i]) <= Abs(FingerBend(XOf(strings[i]), strings[i]))]_vars

(***************************************************************************)
(* C8 amended: for a string at rest and a single visible finger within      *)
(* reach, the finger's bend is distance * width * (1 - distance / 0.08) *   *)
(* 0.8: nothing at distance 0, where the tick eases the bend by 0.8         *)
(* instead, and largest in magnitude, 0.016 * width, at half the reach.     *)
(***************************************************************************)
C8_BendLargestAtHalfReach ==
  [][Ticked =>
       \A i \in DOMAIN strings :
         /\ VibrationAtStart(stringPhysics, i) * 100 <= VibScale
         /\ OneFinger(fingerPositions')
         /\ Near(fingerPositions'[0].x, strings[i])
         => /\ Abs(bendStep'[i]) <= HalfReachBend
            /\ OnString(fingerPositions'[0].x, strings[i])
                 => bendStep'[i] = Eased(BendAtStart(stringPhysics, i))
            /\ AtHalfReach(fingerPositions'[0].x, strings[i])
                 => Abs(bendStep'[i]) = HalfReachBend]_vars

\* a single finger at half the reach of a string bent it by 0.016 * width
\* while the same finger sits on another string whose bend is 0
C8_Witness ==
  /\ SameLayout
  /\ OneFinger(fingerPositions)
  /\ \E i \in DOMAIN strings :
       /\ AtHalfReach(fingerPositions[0].x, strings[i])
       /\ Abs(bendStep[i]) = HalfReachBend
       /\ EventsFor(pluckLog, i) = {}

(***************************************************************************)
(* C9: when every visible finger is 0.08 or more away from a string, the    *)
(* bend update of the tick takes the decay branch: the string's bend        *)
(* becomes 0.8 times what it was.                                           *)
(***************************************************************************)
C9_FarFingersLeaveBendToDecay ==
  [][Ticked =>
       \A i \in DOMAIN strings :
         (\A f \in DOMAIN fingerPositions' :
            fingerPositions'[f].visible => ~Near(fingerPositions'[f].x, strings[i]))
         => bendStep'[i] = Eased(BendAtStart(stringPhysics, i))]_vars

\* a single finger exactly 0.08 away from a bent string: the bend eased but
\* did not vanish
C9_Witness ==
  /\ SameLayout
  /\ OneFinger(fingerPositions)
  /\ \E i \in DOMAIN strings :
       /\ AtReach(fingerPositions[0].x, strings[i])
       /\ bendStep[i] # 0

(***************************************************************************)
(* C10: no Pluck Event is fired in a tick whose detector result holds no    *)
(* hand, nor in the first tick whose result holds a hand again.             *)
(***************************************************************************)
C10_NoPluckAroundLostHands ==
  [][Ticked /\ (detection' = "empty" \/ (handsLost /\ detection' = "hands"))
       => plucks' = <<>>]_vars

(***************************************************************************)
(* C11: in a tick whose detector result holds no hand, every string with a  *)
(* non-zero bend takes the decay branch of the bend update: its bend        *)
(* becomes 0.8 times what it was, so |bend| strictly decreases.             *)
(***************************************************************************)
C11_BendEasesWhileNoHands ==
  [][Ticked /\ detection' = "empty"
       => \A i \in DOMAIN strings :
            BendAtStart(stringPhysics, i) # 0
              => /\ bendStep'[i] = Eased(BendAtStart(stringPhysics, i))
                 /\ Abs(bendStep'[i]) < Abs(BendAtStart(stringPhysics, i))]_vars

(***************************************************************************)
(* C12: for every string count N >= 1 and every pitch range the layout has  *)
(* exactly N descriptors with ids 0..N-1 in order, the i-th at              *)
(* (i+1)/(N+1); the xPos values lie strictly between 0 and 1 and increase   *)
(* strictly with the id.                                                    *)
(***************************************************************************)
\* a / b < c / d for positive denominators
Below(p, q) == p[1] * q[2] < q[1] * p[2]

C12_LayoutEvenlySpaced ==
  /\ stringCount >= 1
  /\ DOMAIN strings = 0 .. stringCount - 1
  /\ Cardinality(DOMAIN strings) = stringCount
  /\ \A i \in DOMAIN strings :
       /\ strings[i].id = i
       /\ strings[i].xPos[2] > 0
       /\ strings[i].xPos[1] * (stringCount + 1) = (i + 1) * strings[i].xPos[2]
       /\ Below(<<0, 1>>, strings[i].xPos)
       /\ Below(strings[i].xPos, <<1, 1>>)
       /\ i + 1 \in DOMAIN strings => Below(strings[i].xPos, strings[i + 1].xPos)

\* the largest layout, in the high range: its last string sits at
\* MaxCount / (MaxCount + 1)
C12_Witness ==
  /\ stringCount = MaxCount
  /\ pitchRange = "High"
  /\ Cardinality(DOMAIN strings) = MaxCount
  /\ strings[MaxCount - 1].xPos = <<MaxCount, MaxCount + 1>>

(***************************************************************************)
(* C13: detect invokes the detector only when video.currentTime differs     *)
(* from the value recorded at the last invocation; a call with an unchanged *)
(* value returns none without invoking it, so the detector runs at most     *)
(* once on any one video frame.                                             *)
(***************************************************************************)
\* this step is a tick that called visionService.detect
DetectCalled == (Ticked /\ detection' # "skipped") \/ ticksPending' < ticksPending

\* in this step the detector ran: it returned a result or threw
DetectorRan ==
  \/ Ticked /\ detection' \in {"empty", "hands"}
  \/ ticksPending' < ticksPending

C13_DetectorOncePerVideoFrame ==
  [][/\ DetectorRan => videoTime' # lastVideoTime
     /\ DetectCalled /\ videoTime' = lastVideoTime
          => /\ detection' = "none"
             /\ ~DetectorRan
             /\ lastLandmarks' = lastLandmarks
     /\ detectorRuns' <= 1]_vars

\* a second tick on the video frame that the detector has already seen
C13_Witness ==
  /\ frame >= 2
  /\ detection = "none"
  /\ videoTime = lastVideoTime
  /\ detectorRuns = 1

(***************************************************************************)
(* C14: a tick in which the detector throws runs to its end like a tick     *)
(* without hands and requests the next animation frame.                     *)
(***************************************************************************)
C14_DetectorFailureKeepsLoop ==
  [][thrown = "nothing" /\ thrown' = "detector"
       => Ticked /\ ticksPending' > 0]_vars

(***************************************************************************)
(* C16: a tick whose detector result holds a hand without landmark 8, or    *)
(* without one of landmarks 0, 5, 6, 7, runs to its end with that hand's    *)
(* slot not visible, fires no Pluck Event for it and requests the next      *)
(* animation frame.                                                         *)
(***************************************************************************)
\* a hand whose landmarks are incomplete
Malformed(hand) == ~hand.tip \/ ~hand.skeleton

\* the Pluck Events that the fingers other than slot f account for
RECURSIVE CrossingsWithout(_, _, _, _, _)
CrossingsWithout(f, fingers, prevX, wasVisible, i) ==
  IF i \notin DOMAIN strings THEN 0
  ELSE (IF \E g \in Slots \ {f} :
             Crossed(strings[i], fingers[g], prevX[g], wasVisible[g])
          THEN 1 ELSE 0)
       + CrossingsWithout(f, fingers, prevX, wasVisible, i + 1)

C16_MalformedHandIsNotVisible ==
  [][(/\ lastLandmarks' # lastLandmarks
       /\ \E g \in DOMAIN lastLandmarks' : Malformed(lastLandmarks'[g]))
       => /\ Ticked
          /\ ticksPending' > 0
          /\ \A h \in DOMAIN lastLandmarks' :
               Malformed(lastLandmarks'[h])
                 => /\ ~fingerPositions'[h - 1].visible
                    /\ Len(plucks') <= CrossingsWithout(h - 1, fingerPositions',
                                         prevFingerX, prevFingerVisible, 0)]_vars

(***************************************************************************)
(* C17: when a load completes for an instrument that is no longer the one   *)
(* most recently requested, the completion is discarded: the active player  *)
(* stays the one it was.                                                    *)
(***************************************************************************)
\* this step is the completion of a load
Completed == lastCompleted' # lastCompleted

C17_SupersededLoadIsDiscarded ==
  [][Completed /\ lastCompleted'.name # requested
       => instrument' = instrument]_vars

\* the latest completed load was for a superseded instrument and an earlier
\* player is still the active one
C17_Witness ==
  /\ lastCompleted # NoPlayer
  /\ lastCompleted.name # requested
  /\ instrument # NoPlayer
  /\ instrument # lastCompleted
  /\ instrument.load < lastCompleted.load

(***************************************************************************)
(* C18: audioService.resume() has been called, by the start control, before *)
(* any Pluck Event is fired, and so before any playNote call.               *)
(***************************************************************************)
C18_ResumeBeforeAnyNote == pluckLog # <<>> => resumed

\* a Pluck Event was fired, by a tick that the start control set going
C18_Witness ==
  /\ resumed
  /\ cameraActive
  /\ frame >= 1
  /\ plucks # <<>>

(***************************************************************************)
(* C19: from the tick in which the detector returns a new result without    *)
(* hands, until a hand is detected again, the landmark cache holds no hand  *)
(* and no finger slot is visible.                                           *)
(***************************************************************************)
C19_CacheClearedWhenHandsDisappear ==
  [][Ticked /\ handsLost'
       => /\ lastLandmarks' = <<>>
          /\ \A f \in DOMAIN fingerPositions' : ~fingerPositions'[f].visible]_vars

(***************************************************************************)
(* C20: a tick that runs while cameraActiveRef.current is false changes no  *)
(* string's bend or vibration, no entry of the debounce ledger and nothing  *)
(* of the previous-finger memory, and fires no Pluck Event.                 *)
(***************************************************************************)
C20_InactiveTickIsNoOp ==
  [][Ticked /\ ~cameraActiveRef
       => /\ \A id \in DOMAIN strings \cup DOMAIN stringPhysics :
               PhysicsOf(stringPhysics', id) = PhysicsOf(stringPhysics, id)
          /\ lastTriggerTimes' = lastTriggerTimes
          /\ prevFingerX' = prevFingerX
          /\ prevFingerVisible' = prevFingerVisible
          /\ plucks' = <<>>]_vars

\* a tick has run, on a ready video with a new frame or not, before the
\* effect brought cameraActiveRef in line with cameraActive
C20_Witness ==
  /\ cameraActive
  /\ ~cameraActiveRef
  /\ frame >= 1
  /\ detection = "skipped"
  /\ videoTime = now

(***************************************************************************)
(* C21: a finger slot that is visible in this tick and was not visible in   *)
(* the tick before fires no Pluck Event in this tick, whatever previous x   *)
(* is stored for it; the tick overwrites the stored x with the new one.     *)
(***************************************************************************)
\* slot f is visible in this tick and was not in the tick before
Reacquired(f, was, fingers) ==
  /\ f \in DOMAIN fingers /\ fingers[f].visible
  /\ ~(f \in DOMAIN was /\ was[f].visible)

C21_NoPluckOnReacquisition ==
  [][Ticked =>
       \A f \in Slots :
         Reacquired(f, fingerPositions, fingerPositions')
           => /\ Len(plucks') <= CrossingsWithout(f, fingerPositions',
                                   prevFingerX, prevFingerVisible, 0)
              /\ prevFingerX'[f] = fingerPositions'[f].x
              /\ prevFingerVisible'[f]]_vars

\* the second hand was seen, lost and seen again while the first stayed
C21_Witness ==
  /\ frame >= 3
  /\ Reacquired(1, before, fingerPositions)
  /\ before # <<>> /\ before[0].visible
  /\ fingerPositions[0].visible

(***************************************************************************)
(* C22: a crossing of a string that is still vibrating (vibration > 0.01)   *)
(* and outside its debounce window fires a Pluck Event and sets the         *)
(* string's vibration back to 1.0.                                          *)
(***************************************************************************)
C22_VibratingStringIsPluckedAgain ==
  [][Ticked =>
       \A i \in DOMAIN strings :
         /\ \E f \in Slots : SlotCrossed(f, strings[i], fingerPositions, fingerPositions')
         /\ VibrationAtStart(stringPhysics, i) * 100 > VibScale
         /\ OutsideWindow(pluckLog, i, now')
         => /\ Cardinality(EventsFor(plucks', i)) = 1
            /\ stringLoop'[i].vibration = VibScale]_vars

\* a string plucked in the tick before, at vibration 0.92, was plucked again
C22_Witness ==
  \E id \in DOMAIN strings :
    /\ EventsFor(EarlierLog, id) # {}
    /\ Cardinality(EventsFor(plucks, id)) = 1
    /\ \A k \in EventsFor(EarlierLog, id) :
         now - pluckLog[k].triggerTimeMs = DEBOUNCE_MS + 1
    /\ stringLoop[id].vibration = VibScale

(***************************************************************************)
(* C23: every Pluck Event of a tick, for string s at time t, comes with the *)
(* ledger entry of s set to t, the vibration of s set to 1.0 and the bend   *)
(* of s set to 0, whatever bend the tick computed before; the event carries *)
(* the y of a finger that crossed s.                                        *)
(***************************************************************************)
C23_PluckEffects ==
  [][Ticked =>
       \A k \in DOMAIN plucks' :
         /\ plucks'[k].stringId \in DOMAIN strings
         /\ plucks'[k].triggerTimeMs = now'
         /\ lastTriggerTimes'[plucks'[k].stringId] = now'
         /\ stringLoop'[plucks'[k].stringId].vibration = VibScale
         /\ stringLoop'[plucks'[k].stringId].bend = 0
         /\ stringPhysics'[plucks'[k].stringId].bend = 0
         /\ \E f \in Slots :
              /\ SlotCrossed(f, strings[plucks'[k].stringId],
                             fingerPositions, fingerPositions')
              /\ plucks'[k].fingerYNormalized = fingerPositions'[f].y]_vars

\* a finger crossed a string at rest and stopped within its reach: the tick
\* first bent the string and then plucked it
C23_Witness ==
  /\ SameLayout
  /\ \E i \in DOMAIN strings :
       /\ Cardinality(EventsFor(plucks, i)) = 1
       /\ bendStep[i] # 0
       /\ stringLoop[i].bend = 0
       /\ stringPhysics[i].bend = 0
       /\ lastTriggerTimes[i] = now

(***************************************************************************)
(* C24: a finger whose y in the tick is greater than 0.67 fires no Pluck    *)
(* Event, also when its x crossed a string since the tick before; the tick  *)
(* still stores its x, so that the crossing is not fired in the next tick   *)
(* when the finger moves up without moving sideways.                        *)
(***************************************************************************)
\* slot f is visible below the playable zone
BelowZone(f, fingers) ==
  /\ f \in DOMAIN fingers /\ fingers[f].visible
  /\ fingers[f].y * 100 > 67 * YUnits

C24_NoPluckBelowPlayableZone ==
  [][Ticked =>
       \A f \in Slots :
         /\ BelowZone(f, fingerPositions')
              => /\ Len(plucks') <= CrossingsWithout(f, fingerPositions',
                                      prevFingerX, prevFingerVisible, 0)
                 /\ prevFingerX'[f] = fingerPositions'[f].x
         /\ /\ BelowZone(f, fingerPositions)
            /\ f \in DOMAIN fingerPositions' /\ fingerPositions'[f].visible
            /\ fingerPositions'[f].x = fingerPositions[f].x
            => Len(plucks') <= CrossingsWithout(f, fingerPositions',
                                 prevFingerX, prevFingerVisible, 0)]_vars

\* a single finger in the zone moved across string 0 to a place below the
\* zone: no Pluck Event, and its new x is stored
C24_Witness ==
  /\ SameLayout
  /\ OneFinger(fingerPositions) /\ OneFinger(before)
  /\ ~BelowZone(0, before)
  /\ BelowZone(0, fingerPositions)
  /\ MovedAcross(before[0].x, fingerPositions[0].x, strings[0])
  /\ plucks = <<>>
  /\ prevFingerX[0] = fingerPositions[0].x

(***************************************************************************)
(* C25 as stated: when two visible fingers are within reach of the same     *)
(* string at rest, the bend update sets the bend that the finger closest to *)
(* the string produces (either finger's, when they are equally close).      *)
(***************************************************************************)
\* both slots visible and within reach of str
BothReach(fingers, str) ==
  /\ fingers # <<>>
  /\ \A f \in Slots : fingers[f].visible /\ Near(fingers[f].x, str)

\* |finger.x - str.xPos|, in units of 1/(XUnits * den)
Distance(x, str) == Abs(x * str.xPos[2] - str.xPos[1] * XUnits)

\* how far |finger.x - str.xPos| is from half the reach, in units of
\* 1/(100 * XUnits * den)
HalfReachGap(x, str) == Abs(100 * Distance(x, str) - 4 * XUnits * str.xPos[2])

C26_VibrationBoundedAndDecaying ==
  [][\A id \in DOMAIN stringPhysics' :
       /\ stringPhysics'[id].vibration >= 0
       /\ stringPhysics'[id].vibration <= VibScale
       /\ Ticked /\ id \in DOMAIN strings
            => /\ stringLoop'[id].vibration >= 0
               /\ stringLoop'[id].vibration <= VibScale
       /\ ~(Ticked /\ EventsFor(plucks', id) # {})
            => stringPhysics'[id].vibration <= VibrationAtStart(stringPhysics, id)]_vars

\* a string plucked twice, the second time while vibrating, has decayed for
\* some frames since and is still vibrating
C26_Witness ==
  \E id \in DOMAIN framesSince :
    /\ Cardinality(EventsFor(pluckLog, id)) = 2
    /\ framesSince[id] >= 10
    /\ ~dropped[id]
    /\ stringPhysics[id].vibration * 100 > VibScale
    /\ stringPhysics[id].vibration * 2 < VibScale

(***************************************************************************)
(* C27: string i has the note whose name is degree i mod 7 of the scale     *)
(* C, D, E, F, G, A, B and whose octave is the range's first octave (3 for  *)
(* Low, 4 for Mid, 5 for High) plus floor(i / 7); so the names repeat every *)
(* seven strings, one octave higher.                                        *)
(***************************************************************************)
C27_NotesCycleTheScale ==
  \A i \in DOMAIN strings :
    /\ strings[i].note[1] = <<"C", "D", "E", "F", "G", "A", "B">>[(i % 7) + 1]
    /\ strings[i].note[2] =
         (CASE pitchRange = "Low" -> 3 [] pitchRange = "Mid" -> 4
            [] pitchRange = "High" -> 5) + (i \div 7)
    /\ i + 7 \in DOMAIN strings
         => /\ strings[i + 7].note[1] = strings[i].note[1]
            /\ strings[i + 7].note[2] = strings[i].note[2] + 1

\* the low range with more than two octaves of strings: string 14 is C5
C27_Witness ==
  /\ pitchRange = "Low"
  /\ stringCount >= 15
  /\ strings[0].note = <<"C", 3>>
  /\ strings[6].note = <<"B", 3>>
  /\ strings[14].note = <<"C", 5>>

(***************************************************************************)
(* C28: confetti is triggered when the number of notes played reaches       *)
(* CONFIG.CONFETTI_TRIGGER_COUNT.                                           *)
(***************************************************************************)
C28_ConfettiAtTriggerCount ==
  [][noteCount < CONFETTI_TRIGGER_COUNT /\ noteCount' >= CONFETTI_TRIGGER_COUNT
       => confettiBursts' > confettiBursts]_vars

(***************************************************************************)
(* C29: once visionService.initialize() has failed, the loading state is    *)
(* never cleared, the start control is never offered, camera capture never  *)
(* becomes active, no tick is scheduled or run and no Pluck Event fires.    *)
(***************************************************************************)
InitFailed == loadingMessage = "Error loading resources. Please refresh."

C29_FailedInitIsFatal ==
  InitFailed
    => /\ loading
       /\ ~ENABLED startCamera
       /\ ~cameraActive /\ ~cameraActiveRef
       /\ ~resumed
       /\ ticksPending = 0 /\ frame = 0
       /\ pluckLog = <<>>

\* the session went on after the failure: the layout was changed
C29_Witness ==
  /\ InitFailed
  /\ loading
  /\ layoutChanges = MaxLayoutChanges
  /\ stringCount = 8

(***************************************************************************)
(* C30: after the load of the requested instrument has failed, with no     *)
(* load completed since and no player of that instrument installed, every  *)
(* playNote call plays the synthesized tone.                               *)
(***************************************************************************)
C30_FallbackAfterLoadFailure ==
  [][/\ Len(sounded') > Len(sounded)
     /\ lastFailed # NoPlayer
     /\ lastFailed.name = requested
     /\ instrument.name # requested
     => sounded'[Len(sounded')] = "fallback"]_vars

(***************************************************************************)
(* C31: a tick in which the detector is not invoked (the video frame has    *)
(* not advanced) or returns no hand fires no Pluck Event, whatever the      *)
(* cache holds and whether or not the layout was changed before the tick.   *)
(***************************************************************************)
C31_NoPluckWithoutNewHands ==
  [][Ticked /\ detection' \in {"none", "empty"} => plucks' = <<>>]_vars

\* such a tick ran on cached landmarks with a visible finger, in a layout that
\* is not the first one and in which a string was plucked before
C31_Witness ==
  /\ detection \in {"none", "empty"}
  /\ frame >= 2
  /\ \E f \in DOMAIN fingerPositions : fingerPositions[f].visible
  /\ before = fingerPositions
  /\ layoutChanges > 0
  /\ DOMAIN stringLoop = DOMAIN strings
  /\ pluckLog # <<>>
  /\ plucks = <<>>

(***************************************************************************)
(* C32: at the end of every tick, every string whose vibration is 0.1 or    *)
(* more has bend exactly 0, in the layout or out of it.                     *)
(***************************************************************************)
C32_NoBendMidPluck ==
  \A id \in DOMAIN stringPhysics :
    stringPhysics[id].vibration >= VibActive => stringPhysics[id].bend = 0

\* a string plucked for the second time, still at 0.1 or more, with a finger
\* held where it would bend the string at rest
C32_Witness ==
  \E i \in DOMAIN strings :
    /\ i \in DOMAIN stringPhysics
    /\ stringPhysics[i].vibration >= VibActive
    /\ stringPhysics[i].vibration < Damp(VibScale)
    /\ stringPhysics[i].bend = 0
    /\ Cardinality(EventsFor(pluckLog, i)) >= 2
    /\ \E f \in DOMAIN fingerPositions :
         /\ fingerPositions[f].visible
         /\ isWithinReach(fingerPositions[f].x, strings[i])
         /\ FingerBend(fingerPositions[f].x, strings[i]) # 0

(***************************************************************************)
(* C33: a tick in which a slot crosses a string inside the string's         *)
(* debounce window leaves the string's ledger entry as it was, gives its    *)
(* vibration and bend the per-tick update only (decay, and the bend of the  *)
(* bend loop) and fires no Pluck Event for it.                              *)
(***************************************************************************)
C33_SuppressedCrossingChangesNothing ==
  [][Ticked =>
       \A i \in DOMAIN strings :
         (/\ \E f \in Slots : SlotCrossed(f, strings[i], fingerPositions, fingerPositions')
          /\ i \in DOMAIN lastTriggerTimes
          /\ ~(now' - lastTriggerTimes[i] > DEBOUNCE_MS))
         => /\ lastTriggerTimes'[i] = lastTriggerTimes[i]
            /\ i \in DOMAIN stringPhysics
            /\ stringPhysics'[i].vibration =
                 (IF stringPhysics[i].vibration > VibFloor
                    THEN Damp(stringPhysics[i].vibration)
                    ELSE stringPhysics[i].vibration)
            /\ stringPhysics'[i].bend =
                 BendUpdate(strings[i], fingerPositions', stringPhysics[i])
            /\ EventsFor(plucks', i) = {}]_vars

\* a slot crossed string 0 inside the window of the string's only pluck
C33_Witness ==
  /\ 0 \in DOMAIN strings
  /\ \E f \in Slots : SlotCrossed(f, strings[0], before, fingerPositions)
  /\ Cardinality(EventsFor(pluckLog, 0)) = 1
  /\ \E k \in EventsFor(EarlierLog, 0) :
       /\ now - pluckLog[k].triggerTimeMs <= DEBOUNCE_MS
       /\ lastTriggerTimes[0] = pluckLog[k].triggerTimeMs
  /\ plucks = <<>>
  /\ stringPhysics[0].vibration = Damp(Damp(VibScale))

(***************************************************************************)
(* C34: at most one callback of tick is pending at any time, whatever the   *)
(* user does with the start control.                                        *)
(***************************************************************************)
C34_OneTickChain == ticksPending <= 1

(***************************************************************************)
(* C35: every Pluck Event of a tick is for a string that the fingertip of   *)
(* one hand, reported in the previous result and in this one, moved across  *)
(* between the two, in whatever slots the two results report the hand.      *)
(***************************************************************************)
\* some hand of both results has its fingertip on different sides of str
HandMovedAcross(earlier, later, str) ==
  \E a \in DOMAIN earlier, b \in DOMAIN later :
    /\ earlier[a].who = later[b].who
    /\ MovedAcross(XUnits - earlier[a].x, XUnits - later[b].x, str)

C35_NoPluckFromSlotChange ==
  [][Ticked =>
       \A k \in DOMAIN plucks' :
         HandMovedAcross(lastLandmarks, lastLandmarks',
                         strings[plucks'[k].stringId])]_vars

(***************************************************************************)
(* C36: a slot that was exactly on a string in the tick before, and is      *)
(* still visible, is not detected as crossing that string in this tick,     *)
(* wherever it went; so the pass that the landing tick detected fires no    *)
(* second Pluck Event, the debounce window being over or not.               *)
(***************************************************************************)
C36_LandingIsDetectedOnce ==
  [][Ticked =>
       \A i \in DOMAIN strings, f \in Slots :
         (/\ f \in DOMAIN fingerPositions /\ fingerPositions[f].visible
          /\ OnString(fingerPositions[f].x, strings[i])
          /\ f \in DOMAIN fingerPositions' /\ fingerPositions'[f].visible)
         => /\ ~Crossed(strings[i], fingerPositions'[f], prevFingerX[f],
                        prevFingerVisible[f])
            /\ OneFinger(fingerPositions') => EventsFor(plucks', i) = {}]_vars

\* one finger came from the left, landed on string 0 and plucked it, and went
\* on to the right after the debounce window: the pluck of the landing is the
\* only one
C36_Witness ==
  /\ frame = 3
  /\ OneFinger(before) /\ OneFinger(fingerPositions)
  /\ OnString(before[0].x, strings[0])
  /\ fingerPositions[0].x * strings[0].xPos[2] > strings[0].xPos[1] * XUnits
  /\ Len(pluckLog) = 1
  /\ pluckLog[1].stringId = 0
  /\ now - pluckLog[1].triggerTimeMs > DEBOUNCE_MS
  /\ plucks = <<>>

(***************************************************************************)
(* C37: a change of the string count or the pitch range changes the layout  *)
(* and leaves every physics-state and ledger entry as it is; the entries of *)
(* ids that are not in the layout are kept by every tick, not decayed and   *)
(* not deleted.                                                             *)
(***************************************************************************)
C37_LayoutChangeKeepsEntries ==
  [][/\ strings' # strings
        => /\ stringPhysics' = stringPhysics
           /\ lastTriggerTimes' = lastTriggerTimes
     /\ DOMAIN stringPhysics \subseteq DOMAIN stringPhysics'
     /\ DOMAIN lastTriggerTimes \subseteq DOMAIN lastTriggerTimes'
     /\ \A id \in DOMAIN stringPhysics \ DOMAIN strings :
          stringPhysics'[id] = stringPhysics[id]
     /\ \A id \in DOMAIN lastTriggerTimes \ DOMAIN strings :
          lastTriggerTimes'[id] = lastTriggerTimes[id]]_vars

\* strings were plucked, the count was lowered and a tick ran in the new
\* layout: a string that left still has the vibration of its pluck tick, a
\* string that stayed went on decaying from it
C37_Witness ==
  /\ layoutChanges = 1
  /\ frame = 3
  /\ DOMAIN stringLoop = DOMAIN strings
  /\ plucks = <<>>
  /\ \E id \in DOMAIN stringPhysics \ DOMAIN strings :
       /\ stringPhysics[id].vibration = Damp(VibScale)
       /\ id \in DOMAIN lastTriggerTimes
  /\ \E id \in DOMAIN strings :
       /\ stringPhysics[id].vibration = Damp(Damp(VibScale))
       /\ id \in DOMAIN lastTriggerTimes

(***************************************************************************)
(* C38: when every load succeeds, then whenever no load is in flight the    *)
(* active player is one of the instrument requested last.                   *)
(***************************************************************************)
C38_LastRequestWins ==
  (loadCalls > 0 /\ pendingLoads = {})
    => /\ instrument # NoPlayer
       /\ instrument.name = requested

\* three instruments were requested and all loads are done; the load that
\* completed last was a superseded one and the active player is another
C38_Witness ==
  /\ loadCalls >= 3
  /\ pendingLoads = {}
  /\ instrument # NoPlayer
  /\ instrument.name = requested
  /\ lastCompleted # instrument
  /\ lastCompleted.name # requested

(***************************************************************************)
(* C39: a loadInstrument call for the instrument whose load failed last,    *)
(* made while no player of that instrument is active, starts a new load,    *)
(* whether or not the player of another instrument is active.               *)
(***************************************************************************)
C39_RetryAfterFailureStartsLoad ==
  [][/\ loadCalls' = loadCalls + 1
     /\ lastFailed # NoPlayer
     /\ lastFailed.name = requested'
     /\ instrument.name # requested'
     => \E l \in pendingLoads' \ pendingLoads : l.name = requested']_vars

====
